---- MODULE Spec2Model ----
(***************************************************************************)
(* Model of src/main.py: the CLIcK benchmark driver.                       *)
(*   - CustomStrOutputParser.parse, get_prompt, get_answer as operators;   *)
(*   - benchmark() as a state machine: preprocessing, the batch loop with  *)
(*     its retry loop, the CSV write, and evaluate().                      *)
(* Text is a sequence of one-character strings.                            *)
(***************************************************************************)
EXTENDS Integers, Sequences, FiniteSets, TLC

\* ------------------------------------------------------------------ bounds
MaxItems == 3          \* records of the dataset
MaxBatchSize == 2      \* --batch_size ranges up to this value
NegBatch == 1          \* ... and down to -NegBatch
MaxRetriesBound == 3   \* --max_retries ranges up to this value
NegRetries == 2        \* ... and down to -NegRetries
MaxTextLen == 3        \* length of a raw response handed to parse

\* ------------------------------------------------------ program constants
DELAY_INCREMENT == 30

VARIABLES
    MODEL_NAME,   \* os.getenv("AZURE_OPENAI_DEPLOYMENT_NAME")
    MAX_RETRIES,  \* args.max_retries
    batch_size,   \* args.batch_size
    click_ds,     \* the dataset records
    all_batch,    \* the QuestionItems
    responses,    \* the ResultRecords
    i,            \* the for loop's index
    mini_batch,   \* the current batch
    retries,      \* the current batch's retry counter
    pc,           \* position in benchmark()
    files,        \* the results directory: path -> table, or NoFile
    result,       \* what evaluate() read and scored
    delay,        \* the current backoff delay (line 166)
    attempts,     \* chain.batch calls made for the current batch
    limited,      \* RateLimitErrors the current batch has met
    earlier,      \* RateLimitErrors the batch before the current one met
    slept,        \* time.sleep arguments of the current batch, in order
    status,       \* how the current batch's retry loop ended
    base,         \* responses as it was when the current batch started
    batched,      \* per item of all_batch: the mini_batches it was sliced into
    dispatched,   \* first index of every batch that was handed to chain.batch
    pbar,         \* the progress bar's count
    raws,         \* the model's raw answers to the last successful call
    preds,        \* what chain.batch returned last
    text,         \* parse: the raw response
    parsed        \* parse: the returned pair

vars == <<MODEL_NAME, MAX_RETRIES, batch_size, click_ds, all_batch, responses,
          i, mini_batch, retries, delay, pc, files, result, attempts, limited,
          earlier, slept, status,
          base, batched, dispatched, pbar, raws, preds, text, parsed>>

\* -------------------------------------------------------------------- text
Whitespace == {" ", "\n"}
Alphabet == {"A", "B", "C", "D", "E", "F", "a", " ", "\n", "\"", "'"}

RECURSIVE TextsOfLen(_)
TextsOfLen(n) ==
    IF n = 0 THEN {<<>>}
    ELSE {Append(s, c) : s \in TextsOfLen(n - 1), c \in Alphabet}

Texts == UNION {TextsOfLen(n) : n \in 0..MaxTextLen}

RECURSIVE LStrip(_)
LStrip(s) ==
    IF s = <<>> THEN s
    ELSE IF Head(s) \in Whitespace THEN LStrip(Tail(s)) ELSE s

RECURSIVE RStrip(_)
RStrip(s) ==
    IF s = <<>> THEN s
    ELSE IF s[Len(s)] \in Whitespace THEN RStrip(SubSeq(s, 1, Len(s) - 1)) ELSE s

\* str.strip()
Strip(s) == RStrip(LStrip(s))

\* str.replace(ch, "")
Remove(s, ch) == SelectSeq(s, LAMBDA c : c # ch)

\* str.startswith(prefix)
StartsWith(s, prefix) ==
    /\ Len(prefix) <= Len(s)
    /\ SubSeq(s, 1, Len(prefix)) = prefix

\* the normalisation of line 31
ParseStripLast(t) == Strip(Remove(Remove(t, "\""), "'"))
Normalise(t) == Remove(Remove(Strip(t), "\""), "'")

\* CustomStrOutputParser.parse: returns (pred, response)
parse(t) ==
    LET response == Normalise(t)
        pred == IF StartsWith(response, <<"A">>) THEN "A"
                ELSE IF StartsWith(response, <<"B">>) THEN "B"
                ELSE IF StartsWith(response, <<"C">>) THEN "C"
                ELSE IF StartsWith(response, <<"D">>) THEN "D"
                ELSE IF StartsWith(response, <<"E">>) THEN "E"
                ELSE ""
    IN <<pred, response>>

\* ----------------------------------------------------------------- dataset
Min(a, b) == IF a < b THEN a ELSE b

\* chr(n) for the code points the run can produce
Chr(n) == <<"A", "B", "C", "D", "E", "F">>[n - 64]

\* Records as the dataset collaborator supplies them (the id is set by
\* position): two that preprocessing accepts ...
Plain4 ==
    [paragraph |-> "", question |-> "q",
     choices |-> << <<"S", " ">>, <<"B">>, <<"D">>, <<"I">> >>,
     answer |-> <<" ", "S">>]
Context5 ==
    [paragraph |-> "ctx", question |-> "q",
     choices |-> << <<"S">>, <<"B">>, <<"D">>, <<"I">>, <<"G">> >>,
     answer |-> <<"G", "\n">>]

\* ... and three that it rejects: 3 choices, 6 choices, an answer that is no choice
BrokenKinds ==
    { [paragraph |-> "ctx", question |-> "q",
       choices |-> << <<"S">>, <<"B">>, <<"D">> >>,
       answer |-> <<"S">>],
      [paragraph |-> "", question |-> "q",
       choices |-> << <<"S">>, <<"B">>, <<"D">>, <<"I">>, <<"G">>, <<"J">> >>,
       answer |-> <<"J">>],
      [paragraph |-> "", question |-> "q",
       choices |-> << <<"S">>, <<"B">>, <<"D">>, <<"I">> >>,
       answer |-> <<"X">>] }

WithId(kind, k) ==
    [id |-> k, paragraph |-> kind.paragraph, question |-> kind.question,
     choices |-> kind.choices, answer |-> kind.answer]

\* n sound records, 4-choice and 5-choice ones in turn
SampleDataset(n) ==
    [k \in 1..n |-> WithId(IF k % 2 = 1 THEN Plain4 ELSE Context5, k)]

\* the sound datasets of up to MaxItems records, and each of them with one
\* record replaced by a broken one
Datasets ==
    UNION { {SampleDataset(n)} \cup
            {[SampleDataset(n) EXCEPT ![k] = WithId(kind, k)] :
                k \in 1..n, kind \in BrokenKinds}
            : n \in 0..MaxItems }

\* get_prompt: the template chosen, or the ValueError of line 89
get_prompt(x) ==
    LET num_choices == Len(x.choices) IN
    IF num_choices = 4 THEN
        IF x.paragraph # "" THEN [raised |-> FALSE, template |-> "TYPE_1"]
        ELSE [raised |-> FALSE, template |-> "TYPE_2"]
    ELSE IF num_choices = 5 THEN
        IF x.paragraph # "" THEN [raised |-> FALSE, template |-> "TYPE_3"]
        ELSE [raised |-> FALSE, template |-> "TYPE_4"]
    ELSE [raised |-> TRUE, template |-> "ValueError"]

\* list.index(v): the first position (from 0), or ValueError
Index(list, v) ==
    LET hits == {k \in 1..Len(list) : list[k] = v} IN
    IF hits = {} THEN [raised |-> TRUE, idx |-> 0]
    ELSE [raised |-> FALSE, idx |-> (CHOOSE k \in hits : \A m \in hits : k <= m) - 1]

\* get_answer: the letter of the trimmed answer among the trimmed choices
get_answer(x) ==
    LET stripped == [k \in 1..Len(x.choices) |-> Strip(x.choices[k])]
        found == Index(stripped, Strip(x.answer))
    IN IF found.raised THEN [raised |-> TRUE, letter |-> "ValueError"]
       ELSE [raised |-> FALSE, letter |-> Chr(65 + found.idx)]

\* one element of the list comprehension of line 144
QuestionItem(x) ==
    [id |-> x.id, question |-> get_prompt(x).template, answer |-> get_answer(x).letter]

\* whether building the item of record x raises
ItemRaises(x) == get_prompt(x).raised \/ get_answer(x).raised

\* ------------------------------------------------------------------- files
ModelNames == {"gpt-4o-mini", "gpt-4o"}

\* f"results/{MODEL_NAME}.csv"
CsvPath(name) == <<"results/", name, ".csv">>

\* the path evaluate() reads (line 205)
EvaluatePath == <<"results/", "gpt-4o-mini", ".csv">>

Paths == {CsvPath(n) : n \in ModelNames}

NoFile == [exists |-> FALSE, rows |-> <<>>]

\* a table left by an earlier run
StaleRows ==
    << [id |-> 0, trial |-> 0, answer |-> "A", pred |-> "A", response |-> <<"A">>] >>

InitialFiles ==
    { [p \in Paths |-> NoFile],
      [p \in Paths |-> IF p = EvaluatePath
                       THEN [exists |-> TRUE, rows |-> StaleRows] ELSE NoFile] }

\* a cell as pd.read_csv returns it: the empty field is NaN
Cell(v, empty) == [na |-> v = empty, v |-> v]

\* pd.read_csv of a table written by DataFrame.to_csv(index=False)
ReadCsv(rows) ==
    [k \in 1..Len(rows) |->
        [id |-> rows[k].id, trial |-> rows[k].trial, answer |-> rows[k].answer,
         pred |-> Cell(rows[k].pred, ""), response |-> Cell(rows[k].response, <<>>)]]

\* result["correct"] = result["answer"] == result["pred"]
Scored(table) ==
    [k \in 1..Len(table) |->
        [id |-> table[k].id, answer |-> table[k].answer, pred |-> table[k].pred,
         correct |-> (~table[k].pred.na /\ table[k].pred.v = table[k].answer)]]

NoResult == [read |-> FALSE, path |-> <<>>, rows |-> <<>>]

\* -------------------------------------------------------- model invocation
\* raw texts the chat model may answer with; the last parses to no letter
RawResponses == { <<"\"", "A", "\"">>, <<"B", "\n">>, <<"a">> }

\* all_batch[i:i+batch_size]
SliceOverlapping(list, from, size) ==
    SubSeq(list, from + 1, Min(from + size + 1, Len(list)))
Slice(list, from, size) == SubSeq(list, from + 1, Min(from + size, Len(list)))

\* the records appended by lines 162-163
NewRecordsReversed(qnas, ps) ==
    LET n == Min(Len(qnas), Len(ps)) IN
    [k \in 1..n |->
        [id |-> qnas[k].id, trial |-> 0, answer |-> qnas[k].answer,
         pred |-> ps[n + 1 - k][1], response |-> ps[n + 1 - k][2]]]
NewRecords(qnas, ps) ==
    [k \in 1..Min(Len(qnas), Len(ps)) |->
        [id |-> qnas[k].id, trial |-> 0, answer |-> qnas[k].answer,
         pred |-> ps[k][1], response |-> ps[k][2]]]

\* delay = (retries + 1) * DELAY_INCREMENT
DelayFromZero(r) == r * DELAY_INCREMENT
Delay(r) == (r + 1) * DELAY_INCREMENT

\* how many items of qnas carry the id
Occurrences(qnas, id) == Cardinality({m \in 1..Len(qnas) : qnas[m].id = id})

\* the test of line 171
ExhaustedEarly(r) == r >= MAX_RETRIES
Exhausted(r) == r > MAX_RETRIES

\* ------------------------------------------------------------- benchmark()
config == <<MODEL_NAME, MAX_RETRIES, batch_size, click_ds>>
parseState == <<text, parsed>>
perBatch == <<attempts, limited, slept, status, base>>

Init ==
    /\ MODEL_NAME \in ModelNames
    /\ MAX_RETRIES \in (0 - NegRetries)..MaxRetriesBound
    /\ batch_size \in (0 - NegBatch)..MaxBatchSize
    /\ click_ds \in Datasets
    /\ files \in InitialFiles
    /\ all_batch = <<>>
    /\ responses = <<>>
    /\ i = 0
    /\ mini_batch = <<>>
    /\ retries = 0
    /\ delay = 0
    /\ limited = 0
    /\ earlier = 0
    /\ pc = "start"
    /\ result = NoResult
    /\ attempts = 0
    /\ slept = <<>>
    /\ status = "none"
    /\ base = <<>>
    /\ batched = <<>>
    /\ dispatched = <<>>
    /\ pbar = 0
    /\ raws = <<>>
    /\ preds = <<>>
    /\ text = <<>>
    /\ parsed = <<>>

\* lines 144-147: every record is turned into a QuestionItem before the loop;
\* a ValueError of get_prompt or get_answer propagates out of benchmark()
PreprocessSkipInvalid ==
    /\ pc = "start"
    /\ all_batch' = [k \in 1..Len(click_ds) |-> QuestionItem(click_ds[k])]
    /\ batched' = [k \in 1..Len(click_ds) |-> 0]
    /\ responses' = <<>>
    /\ pc' = "for"
    /\ UNCHANGED <<config, earlier, i, mini_batch, retries, delay, files, result,
                   perBatch, dispatched, pbar, raws, preds, parseState>>
Preprocess ==
    /\ pc = "start"
    /\ IF \E k \in 1..Len(click_ds) : ItemRaises(click_ds[k])
       THEN /\ pc' = "aborted"
            /\ UNCHANGED <<all_batch, responses, batched>>
       ELSE /\ all_batch' = [k \in 1..Len(click_ds) |-> QuestionItem(click_ds[k])]
            /\ batched' = [k \in 1..Len(click_ds) |-> 0]
            /\ responses' = <<>>
            /\ pc' = "for"
    /\ UNCHANGED <<config, earlier, i, mini_batch, retries, delay, files, result,
                   perBatch, dispatched, pbar, raws, preds, parseState>>

\* range(0, len(all_batch), batch_size) still yields k
InRange(k) ==
    \/ batch_size > 0 /\ k < Len(all_batch)
    \/ batch_size < 0 /\ k > Len(all_batch)

\* line 154: range() refuses a step of 0; the ValueError ends benchmark()
ForRangeError ==
    /\ pc = "for"
    /\ batch_size = 0
    /\ pc' = "range_error"
    /\ UNCHANGED <<config, earlier, batched, all_batch, responses, i, mini_batch, retries,
                   delay, files, result, perBatch, dispatched, pbar, raws, preds,
                   parseState>>

\* lines 154-156: the next batch is sliced and its retry counter starts at 0
ForNextKeepRetries ==
    /\ pc = "for"
    /\ InRange(i)
    /\ mini_batch' = Slice(all_batch, i, batch_size)
    /\ attempts' = 0
    /\ limited' = 0
    /\ earlier' = limited
    /\ slept' = <<>>
    /\ status' = "none"
    /\ base' = responses
    /\ batched' = [k \in 1..Len(all_batch) |->
                       batched[k] + Occurrences(mini_batch', all_batch[k].id)]
    /\ pc' = "while"
    /\ UNCHANGED <<config, all_batch, responses, i, retries, delay, files, result,
                   dispatched, pbar, raws, preds, parseState>>
ForNext ==
    /\ pc = "for"
    /\ InRange(i)
    /\ mini_batch' = Slice(all_batch, i, batch_size)
    /\ retries' = 0
    /\ attempts' = 0
    /\ limited' = 0
    /\ earlier' = limited
    /\ slept' = <<>>
    /\ status' = "none"
    /\ base' = responses
    /\ batched' = [k \in 1..Len(all_batch) |->
                       batched[k] + Occurrences(mini_batch', all_batch[k].id)]
    /\ pc' = "while"
    /\ UNCHANGED <<config, all_batch, responses, i, delay, files, result,
                   dispatched, pbar, raws, preds, parseState>>

\* line 154: range() is exhausted
ForExit ==
    /\ pc = "for"
    /\ batch_size # 0
    /\ ~InRange(i)
    /\ pc' = "persist"
    /\ UNCHANGED <<config, earlier, batched, all_batch, responses, i, mini_batch, retries,
                   delay, files, result, perBatch, dispatched, pbar, raws, preds,
                   parseState>>

\* line 158: the while condition is false (only on entry: line 171 breaks
\* before the condition could be tested false again)
WhileExit ==
    /\ pc = "while"
    /\ ~(retries <= MAX_RETRIES)
    /\ status' = "skipped"
    /\ pc' = "progress"
    /\ UNCHANGED <<config, earlier, batched, all_batch, responses, i, mini_batch, retries,
                   delay, files, result, attempts, limited, slept, base,
                   dispatched, pbar, raws, preds, parseState>>

\* lines 158-160: the while condition holds and chain.batch is entered
Call ==
    /\ pc = "while"
    /\ retries <= MAX_RETRIES
    /\ attempts' = attempts + 1
    /\ dispatched' = IF attempts = 0 THEN Append(dispatched, i) ELSE dispatched
    /\ pc' = "call"
    /\ UNCHANGED <<config, earlier, batched, all_batch, responses, i, mini_batch, retries,
                   delay, files, result, limited, slept, status, base, pbar, raws,
                   preds, parseState>>

\* lines 160-164: the call returns; one record per (item, pred) pair
CallSuccess ==
    /\ pc = "call"
    /\ \E rs \in [1..Len(mini_batch) -> RawResponses] :
          /\ raws' = rs
          /\ preds' = [k \in 1..Len(mini_batch) |-> parse(rs[k])]
    /\ responses' = responses \o NewRecords(mini_batch, preds')
    /\ status' = "success"
    /\ pc' = "progress"
    /\ UNCHANGED <<config, earlier, batched, all_batch, i, mini_batch, retries, delay,
                   files, result, attempts, limited, slept, base, dispatched,
                   pbar, parseState>>

\* lines 165-168: RateLimitError: the delay is computed and time.sleep entered
CallRateLimit ==
    /\ pc = "call"
    /\ limited' = limited + 1
    /\ delay' = Delay(retries)
    /\ pc' = "sleep"
    /\ UNCHANGED <<config, earlier, batched, all_batch, responses, i, mini_batch, retries,
                   files, result, attempts, slept, status, base, dispatched, pbar,
                   raws, preds, parseState>>

\* lines 168-173: time.sleep returns; count, give up past MAX_RETRIES
SleepReturn ==
    /\ pc = "sleep"
    /\ slept' = Append(slept, delay)
    /\ retries' = retries + 1
    /\ IF Exhausted(retries')
       THEN status' = "exhausted" /\ pc' = "progress"
       ELSE status' = "none" /\ pc' = "while"
    /\ UNCHANGED <<config, earlier, batched, all_batch, responses, i, mini_batch, delay,
                   files, result, attempts, limited, base, dispatched, pbar, raws,
                   preds, parseState>>

\* lines 174-176: openai.BadRequestError
CallBadRequestRetried ==
    /\ pc = "call"
    /\ status' = "bad_request"
    /\ pc' = IF attempts < 2 THEN "while" ELSE "progress"
    /\ UNCHANGED <<config, earlier, batched, all_batch, responses, i, mini_batch, retries,
                   delay, files, result, attempts, limited, slept, base,
                   dispatched, pbar, raws, preds, parseState>>
CallBadRequest ==
    /\ pc = "call"
    /\ status' = "bad_request"
    /\ pc' = "progress"
    /\ UNCHANGED <<config, earlier, batched, all_batch, responses, i, mini_batch, retries,
                   delay, files, result, attempts, limited, slept, base,
                   dispatched, pbar, raws, preds, parseState>>

\* lines 177-179: any other Exception
CallOther ==
    /\ pc = "call"
    /\ status' = "error"
    /\ pc' = "progress"
    /\ UNCHANGED <<config, earlier, batched, all_batch, responses, i, mini_batch, retries,
                   delay, files, result, attempts, limited, slept, base,
                   dispatched, pbar, raws, preds, parseState>>

\* lines 181-182 and the loop's step: progress is reported, i advances
Progress ==
    /\ pc = "progress"
    /\ pbar' = pbar + Len(mini_batch)
    /\ i' = i + batch_size
    /\ pc' = "for"
    /\ UNCHANGED <<config, earlier, batched, all_batch, responses, mini_batch, retries,
                   delay, files, result, perBatch, dispatched, raws, preds,
                   parseState>>

\* lines 188-191: the table is written to results/<MODEL_NAME>.csv
Persist ==
    /\ pc = "persist"
    /\ files' = [files EXCEPT ![CsvPath(MODEL_NAME)] =
                     [exists |-> TRUE, rows |-> responses]]
    /\ pc' = "evaluate"
    /\ UNCHANGED <<config, earlier, batched, all_batch, responses, i, mini_batch, retries,
                   delay, result, perBatch, dispatched, pbar, raws, preds,
                   parseState>>

\* lines 194, 198-235: evaluate(csv_path) reads its table and scores it;
\* a missing file (FileNotFoundError) or a file without columns
\* (EmptyDataError) ends the run with the exception
Evaluate ==
    /\ pc = "evaluate"
    /\ LET file == files[EvaluatePath] IN
       IF ~file.exists \/ file.rows = <<>>
       THEN /\ pc' = "crashed"
            /\ UNCHANGED result
       ELSE /\ result' = [read |-> TRUE, path |-> EvaluatePath,
                          rows |-> Scored(ReadCsv(file.rows))]
            /\ pc' = "done"
    /\ UNCHANGED <<config, earlier, batched, all_batch, responses, i, mini_batch, retries,
                   delay, files, perBatch, dispatched, pbar, raws, preds,
                   parseState>>

Next ==
    \/ Preprocess
    \/ ForRangeError
    \/ ForNext
    \/ ForExit
    \/ WhileExit
    \/ Call
    \/ CallSuccess
    \/ CallRateLimit
    \/ SleepReturn
    \/ CallBadRequest
    \/ CallOther
    \/ Progress
    \/ Persist
    \/ Evaluate

Spec == Init /\ [][Next]_vars

\* ------------------------------------------------ parse on its own inputs
ParseInit ==
    /\ text \in Texts
    /\ parsed = <<>>
    /\ pc = "parse"
    /\ MODEL_NAME = "gpt-4o-mini"
    /\ MAX_RETRIES = 0
    /\ batch_size = 1
    /\ click_ds = <<>>
    /\ files = [p \in Paths |-> NoFile]
    /\ all_batch = <<>>
    /\ responses = <<>>
    /\ i = 0
    /\ mini_batch = <<>>
    /\ retries = 0
    /\ delay = 0
    /\ limited = 0
    /\ earlier = 0
    /\ result = NoResult
    /\ attempts = 0
    /\ slept = <<>>
    /\ status = "none"
    /\ base = <<>>
    /\ batched = <<>>
    /\ dispatched = <<>>
    /\ pbar = 0
    /\ raws = <<>>
    /\ preds = <<>>

\* lines 30-45: parse(text) returns
ParseStep ==
    /\ pc = "parse"
    /\ parsed' = parse(text)
    /\ pc' = "parsed"
    /\ UNCHANGED <<config, earlier, batched, all_batch, responses, i, mini_batch, retries,
                   delay, files, result, perBatch, dispatched, pbar, raws, preds,
                   text>>

ParseNext == ParseStep

SpecParse == ParseInit /\ [][ParseNext]_vars

\* ------------------------------------------------------------------ claims
ChoiceLetters == {"A", "B", "C", "D", "E"}
Quotes == {"\"", "'"}
AfterLoop == {"persist", "evaluate", "done", "crashed"}
InLoop == {"for", "while", "call", "sleep", "progress"}

RECURSIVE SumSeq(_)
SumSeq(s) == IF s = <<>> THEN 0 ELSE Head(s) + SumSeq(Tail(s))

Max(a, b) == IF a > b THEN a ELSE b

\* the first indices of the batches of the partition, in list order
RECURSIVE BatchStartsFrom(_)
BatchStartsFrom(k) ==
    IF batch_size < 1 \/ k >= Len(all_batch) THEN <<>>
    ELSE <<k>> \o BatchStartsFrom(k + batch_size)

\* the positions of all_batch that the batch starting at b covers
BatchPositions(b) == {k \in 1..Len(all_batch) : b < k /\ k <= b + batch_size}

RecordsOf(id) == {k \in 1..Len(responses) : responses[k].id = id}

\* the position in all_batch of the item with this id
PositionOf(id) == CHOOSE k \in 1..Len(all_batch) : all_batch[k].id = id

\* the linear schedule 30, 60, ..., 30 * n
Schedule(n) == [k \in 1..n |-> k * 30]

\* the run is in its batch loop or past it
Dispatching == pc \in InLoop \cup AfterLoop

\* every batch of the partition has one record for each of its items or none
AllOrNothing ==
    \A n \in 1..Len(BatchStartsFrom(0)) :
        LET held == {k \in BatchPositions(BatchStartsFrom(0)[n]) :
                        RecordsOf(all_batch[k].id) # {}}
        IN held = {} \/ held = BatchPositions(BatchStartsFrom(0)[n])

\* C1 as stated: every item is sliced into exactly one mini_batch (at most one
\* while the loop runs), has at most one record, and every batch has either
\* one record for each of its items or no record at all.
C1_Original ==
    Dispatching =>
        /\ \A k \in 1..Len(all_batch) :
              /\ batched[k] <= 1
              /\ pc \in AfterLoop => batched[k] = 1
              /\ Cardinality(RecordsOf(all_batch[k].id)) <= 1
        /\ AllOrNothing

\* C1 amended: every item is sliced into at most one mini_batch, and into
\* exactly one by the end of the loop when batch_size >= 1; it has at most one
\* record; every batch has one record for each of its items or none at all.
C1_BatchAllOrNothing ==
    Dispatching =>
        /\ \A k \in 1..Len(all_batch) :
              /\ batched[k] <= 1
              /\ (pc \in AfterLoop /\ batch_size >= 1) => batched[k] = 1
              /\ Cardinality(RecordsOf(all_batch[k].id)) <= 1
        /\ AllOrNothing

\* the loop is over; the first batch left no record and the second one did
C1_Witness ==
    /\ pc = "persist"
    /\ Len(all_batch) = 3
    /\ batch_size = 2
    /\ Len(responses) = 1
    /\ responses[1].id = all_batch[3].id

\* C2: a batch that succeeds after k rate limits (0 <= k <= max_retries) has a
\* record for each of its items and has slept 30 + 60 + ... + 30 * k seconds in
\* all; and a batch is given up for rate limits only after more than
\* max_retries of them, so that the success after k <= max_retries can happen.
C2_RetryThenSucceed ==
    /\ status = "success" =>
          LET k == limited IN
          /\ 0 <= k /\ k <= MAX_RETRIES
          /\ attempts = k + 1
          /\ Len(slept) = k
          /\ SumSeq(slept) = (30 * k * (k + 1)) \div 2
          /\ Len(responses) = Len(base) + Len(mini_batch)
          /\ \A m \in 1..Len(mini_batch) :
                Cardinality(RecordsOf(mini_batch[m].id)) = 1
    /\ status = "exhausted" => limited > MAX_RETRIES

\* two rate limits, then success, under max_retries = 3: 30 s + 60 s slept
C2_Witness ==
    /\ status = "success"
    /\ MAX_RETRIES = 3
    /\ limited = 2
    /\ attempts = 3
    /\ SumSeq(slept) = 90
    /\ Len(mini_batch) = 2
    /\ Len(responses) = Len(base) + 2

\* C3: with max_retries >= 0, a batch that is rate limited on every attempt is
\* attempted exactly max_retries + 1 times, leaves responses as it was, has no
\* record for any of its items, and the run goes on to the next batch.
C3_ExhaustedBatchDropped ==
    /\ (MAX_RETRIES >= 0 /\ pc = "while" /\ attempts = limited) =>
          attempts <= MAX_RETRIES
    /\ status = "exhausted" =>
          /\ MAX_RETRIES >= 0
          /\ limited = attempts
          /\ attempts = MAX_RETRIES + 1
          /\ responses = base
          /\ \A m \in 1..Len(mini_batch) : RecordsOf(mini_batch[m].id) = {}
          /\ pc \in {"progress", "for"} \cup AfterLoop
          /\ pc = "progress" => ENABLED Progress
          /\ (pc = "for" /\ i < Len(all_batch)) => ENABLED ForNext

\* max_retries = 1: two attempts, no record, and the next batch is up
C3_Witness ==
    /\ status = "exhausted"
    /\ MAX_RETRIES = 1
    /\ attempts = 2
    /\ responses = <<>>
    /\ pc = "for"
    /\ i < Len(all_batch)

\* C4: a bad request or any other failure, on the first attempt or after rate
\* limits, ends the batch at once: the failing call is its last, there is no
\* sleep for it, responses is left as it was, and the next batch follows.
C4_AbandonWithoutRetry ==
    status \in {"bad_request", "error"} =>
        /\ attempts = limited + 1
        /\ Len(slept) = limited
        /\ responses = base
        /\ \A m \in 1..Len(mini_batch) : RecordsOf(mini_batch[m].id) = {}
        /\ pc \in {"progress", "for"} \cup AfterLoop
        /\ pc = "progress" => ENABLED Progress
        /\ (pc = "for" /\ i < Len(all_batch)) => ENABLED ForNext

\* a bad request on the attempt that follows two rate limits; next batch is up
C4_Witness ==
    /\ status = "bad_request"
    /\ limited = 2
    /\ attempts = 3
    /\ pc = "for"
    /\ i < Len(all_batch)

\* C5: whatever max_retries is, and for any batch_size >= 1, by the time the
\* loop is left every batch of the partition has been handed to the model at
\* least once, in list order.
C5_EveryBatchCalled ==
    (pc \in AfterLoop /\ batch_size >= 1) => dispatched = BatchStartsFrom(0)

\* C6: the records of a successful batch are, position by position, its items
\* with the parsed answers the model gave, and the ids of responses are at all
\* times in the order the items have in all_batch.
C6_SubmissionOrder ==
    /\ status = "success" =>
          \A m \in 1..Len(mini_batch) :
              LET r == responses[Len(base) + m] IN
              /\ r.id = mini_batch[m].id
              /\ r.answer = mini_batch[m].answer
              /\ r.trial = 0
              /\ <<r.pred, r.response>> = preds[m]
              /\ preds[m] = parse(raws[m])
    /\ Dispatching =>
          \A a, b \in 1..Len(responses) :
              a < b => PositionOf(responses[a].id) < PositionOf(responses[b].id)

\* two items in one batch, the model answering A then B: two rows, A then B
C6_Witness ==
    /\ pc = "persist"
    /\ Len(all_batch) = 2
    /\ batch_size = 2
    /\ Len(responses) = 2
    /\ responses[1].id = all_batch[1].id /\ responses[1].pred = "A"
    /\ responses[2].id = all_batch[2].id /\ responses[2].pred = "B"

\* s is t without its leading and trailing whitespace
IsStripOf(t, s) ==
    \E a, b \in 0..Len(t) :
        /\ a <= b
        /\ s = SubSeq(t, a + 1, b)
        /\ \A k \in 1..a : t[k] \in Whitespace
        /\ \A k \in (b + 1)..Len(t) : t[k] \in Whitespace
        /\ s # <<>> => (s[1] \notin Whitespace /\ s[Len(s)] \notin Whitespace)

\* C7: parse returns (letter, r) where r is the text stripped of surrounding
\* whitespace and then of every quote character, and letter is r's first
\* character when that is one of A..E and the empty string otherwise.
C7_ParseLetter ==
    pc = "parsed" =>
        /\ Len(parsed) = 2
        /\ \E a, b \in 0..Len(text) :
              /\ IsStripOf(text, SubSeq(text, a + 1, b))
              /\ parsed[2] = SelectSeq(SubSeq(text, a + 1, b), LAMBDA c : c \notin Quotes)
        /\ parsed[1] = IF parsed[2] # <<>> /\ parsed[2][1] \in ChoiceLetters
                       THEN parsed[2][1] ELSE ""

\* a quote in front hides a blank: removing it leaves the blank first
C7_Witness ==
    /\ pc = "parsed"
    /\ text = <<"\"", " ", "A">>
    /\ parsed = <<"", <<" ", "A">> >>

\* C8: the table evaluate() scores is the one this run wrote for its model
C8_EvaluateReadsOwnTable ==
    pc = "done" =>
        /\ result.read
        /\ result.path = CsvPath(MODEL_NAME)
        /\ result.rows = Scored(ReadCsv(responses))

\* a record the preprocessing cannot turn into a QuestionItem
InvalidRecord(x) ==
    \/ Len(x.choices) \notin {4, 5}
    \/ \A k \in 1..Len(x.choices) : Strip(x.choices[k]) # Strip(x.answer)

\* C9: a dataset with an invalid record aborts the run with no model call, no
\* record and no file written; a run that reaches its loop has one item per
\* record, each with an expected answer in A..E.
C9_PreprocessFatal ==
    /\ (\E k \in 1..Len(click_ds) : InvalidRecord(click_ds[k])) =>
          /\ pc \in {"start", "aborted"}
          /\ dispatched = <<>> /\ attempts = 0
          /\ responses = <<>>
          /\ files \in InitialFiles
    /\ pc = "aborted" => \E k \in 1..Len(click_ds) : InvalidRecord(click_ds[k])
    /\ Dispatching =>
          /\ Len(all_batch) = Len(click_ds)
          /\ \A k \in 1..Len(all_batch) :
                /\ all_batch[k].id = click_ds[k].id
                /\ all_batch[k].answer \in ChoiceLetters

\* aborted on a later record whose answer is no choice, after a valid first one
C9_Witness ==
    /\ pc = "aborted"
    /\ Len(click_ds) >= 2
    /\ ~InvalidRecord(click_ds[1])
    /\ Len(click_ds[2].choices) = 4
    /\ InvalidRecord(click_ds[2])
    /\ dispatched = <<>>

\* the sleeps the current batch has begun, the one in progress included
SleepsBegun == IF pc = "sleep" THEN Append(slept, delay) ELSE slept

\* what C10 says of the sleeps: the n-th rate limit is followed by a sleep of
\* n * 30 s; retries counts the sleeps that are over; an exhausted batch has
\* slept max_retries + 1 times and made no call after its last sleep
BackoffSchedule ==
    Dispatching =>
        /\ SleepsBegun = Schedule(limited)
        /\ retries = Len(slept)
        /\ status = "exhausted" =>
              /\ Len(slept) = MAX_RETRIES + 1
              /\ attempts = Len(slept)

\* C10 as stated: the schedule, and retries never above max_retries + 1
C10_Original ==
    /\ BackoffSchedule
    /\ pc \in {"while", "call", "sleep", "progress"} => retries <= MAX_RETRIES + 1

\* C10 amended: the n-th rate limit of a batch is followed by a sleep of n * 30
\* seconds, counted from 0 in every batch; sleeps equal rate limits; an
\* exhausted batch has slept max_retries + 1 times and is not attempted again;
\* retries never exceeds max_retries + 1 or, when that is negative, 0.
C10_LinearBackoff ==
    /\ BackoffSchedule
    /\ pc \in {"while", "call", "sleep", "progress"} =>
          retries <= Max(MAX_RETRIES + 1, 0)

\* the second batch, exhausted under max_retries = 1 after the first one met
\* two rate limits:
\* its own sleeps were again 30 s then 60 s
C10_Witness ==
    /\ status = "exhausted"
    /\ pc = "progress"
    /\ MAX_RETRIES = 1
    /\ Len(dispatched) = 2
    /\ i = dispatched[2]
    /\ earlier = 2
    /\ slept = <<30, 60>>
    /\ retries = 2

====
